---- MODULE Spec2Model ----
(***************************************************************************)
(* Model of the photo library tools: PhotoReplacer (photo_replacer.py),    *)
(* merge_photos (photo_merger.py) and convert_heic_to_jpg (heic_to_jpg.py).*)
(* The filesystem is a function from paths <<tree, dir, name>> to files;   *)
(* a file is its pixel data plus its embedded tags.  File names are        *)
(* sequences of characters, so that lower() and Path.suffix are computed.  *)
(***************************************************************************)
EXTENDS Integers, Sequences, FiniteSets, TLC

VARIABLES
    fs,               \* the filesystem: path -> file (NoFile when absent)
    dirs,             \* directories created by the tools (mkdir / makedirs)
    pc,               \* position of the running tool
    runs,             \* number of runs started so far
    idx,              \* index of the loop iteration in progress
    errors,           \* the errors list of the running tool
    phone_images,     \* find_matching_photos: index of the phone folder
    camera_images,    \* find_matching_photos: index of the camera folder
    matches,          \* replace_photos: the match list
    backup_ok,        \* replace_photos: value returned by the backup call
    replaced_count,   \* replace_photos: tally of replaced photos
    source_files,     \* merge_photos: index of the source folder
    target_filenames, \* merge_photos: lowercased names found in the target
    copied_count,     \* merge_photos: tally of copied photos
    heic_files,       \* convert_heic_to_jpg: the HEIC files found
    delete_original,  \* convert_heic_to_jpg: its delete_original argument
    converted_count,  \* convert_heic_to_jpg: tally of converted files
    edited_count,     \* convert_heic_to_jpg: tally "With iPhone edits"
    original_count,   \* convert_heic_to_jpg: tally "Original photos"
    pre,              \* history: the filesystem when the run started
    results,          \* history: outcome recorded for each processed item
    bkFirst,          \* history: content of each backup file when written
    history           \* history: tallies of the runs that have finished

replaceVars == <<phone_images, camera_images, matches, backup_ok,
                 replaced_count, bkFirst>>
mergeVars == <<source_files, target_filenames, copied_count, history>>
convertVars == <<heic_files, delete_original, converted_count,
                 edited_count, original_count>>

vars == <<fs, dirs, pc, runs, idx, errors, pre, results, replaceVars,
          mergeVars, convertVars>>

(***************************************************************************)
(* Bounds                                                                  *)
(***************************************************************************)
MaxRuns == 2

(***************************************************************************)
(* File names and paths                                                    *)
(***************************************************************************)
NameAJPG == <<"A", ".", "J", "P", "G">>
Nameajpg == <<"a", ".", "j", "p", "g">>
NameBPNG == <<"B", ".", "P", "N", "G">>
NameCjpg == <<"C", ".", "j", "p", "g">>

LowerChar(c) ==
    CASE c = "A" -> "a" [] c = "B" -> "b" [] c = "C" -> "c"
      [] c = "E" -> "e" [] c = "G" -> "g" [] c = "H" -> "h"
      [] c = "I" -> "i" [] c = "J" -> "j" [] c = "N" -> "n"
      [] c = "P" -> "p" [] OTHER -> c

\* str.lower()
Lower(name) == [i \in 1..Len(name) |-> LowerChar(name[i])]

SetMax(S) == CHOOSE m \in S : \A n \in S : n <= m

\* pathlib's Path(name).suffix: from the last dot, unless it leads the name
Suffix(name) ==
    LET dots == {i \in 2..Len(name) : name[i] = "."}
    IN  IF dots = {} \/ SetMax(dots) = Len(name) THEN <<>>
        ELSE SubSeq(name, SetMax(dots), Len(name))

Tree(p) == p[1]
Dir(p)  == p[2]
Name(p) == p[3]

BackupDirName == "_replaced_photos_backup"
PhoneBackupDir == <<"phone", BackupDirName>>

\* the files a phone folder and a camera folder may hold at the start
PhoneUniverse ==
    {<<"phone", "", NameAJPG>>, <<"phone", "sub", NameAJPG>>,
     <<"phone", "", NameBPNG>>, <<"phone", "", NameCjpg>>}
CameraUniverse ==
    {<<"camera", "", NameAJPG>>, <<"camera", "", Nameajpg>>,
     <<"camera", "c1", NameAJPG>>}
ReplacePaths ==
    PhoneUniverse \cup CameraUniverse
      \cup {<<"phone", BackupDirName, Name(p)>> : p \in PhoneUniverse}

(***************************************************************************)
(* Files                                                                   *)
(***************************************************************************)
NoTags == <<>>
NoFile == [pix |-> <<>>, meta |-> <<>>]
\* every file of the initial trees has its own pixel data and its own tags
OriginalFile(p) == [pix |-> p, meta |-> p]

Exists(f, p) == f[p] # NoFile

\* exiftool -TagsFromFile src -all:all dst: the tags of src are written over
\* those of dst; a tag src does not have is left as it is in dst
Transplant(srcMeta, dstMeta) == IF srcMeta = NoTags THEN dstMeta ELSE srcMeta

\* outcomes of the two external steps of a copy: the bytes copy fails, the
\* tag copy fails, or both succeed
Outcomes == {"ok", "copy_fail", "meta_fail"}

(***************************************************************************)
(* Asset Indexer: os.walk order                                            *)
(***************************************************************************)
Perms(S) ==
    {s \in [1..Cardinality(S) -> S] : \A x \in S : \E i \in DOMAIN s : s[i] = x}

\* os.walk is top-down: the files of the root come first, then each
\* subdirectory in turn; the order inside a directory is the listing's
WalkOrders(S) ==
    {s \in Perms(S) :
        \A i, j \in DOMAIN s :
            /\ (Dir(s[i]) = "" /\ Dir(s[j]) # "") => i < j
            /\ (i < j /\ Dir(s[i]) = Dir(s[j])) =>
                   \A k \in i..j : Dir(s[k]) = Dir(s[i])}

ReplacerSuffixes ==
    {<<".", "j", "p", "g">>, <<".", "j", "p", "e", "g">>,
     <<".", "h", "e", "i", "c">>}

\* PhotoReplacer.get_image_files: the set of files it returns, in any of
\* the orders os.walk may produce
ReplacerImageFiles(f, tree) ==
    WalkOrders({p \in DOMAIN f :
                  /\ Tree(p) = tree
                  /\ Exists(f, p)
                  /\ Lower(Suffix(Name(p))) \in ReplacerSuffixes})

(***************************************************************************)
(* Matcher: PhotoReplacer.find_matching_photos                             *)
(***************************************************************************)
Range(s) == {s[i] : i \in DOMAIN s}

SetMin(S) == CHOOSE m \in S : \A n \in S : m <= n

\* mutant: the first image with a key is kept, later ones are dropped
CameraDictFirstWins(cams) ==
    [k \in {Lower(Name(c)) : c \in Range(cams)} |->
        cams[SetMin({i \in DOMAIN cams : Lower(Name(cams[i])) = k})]]

\* dict comprehension: a later image with the same key replaces an earlier
CameraDictKeys(cams) == {Lower(Name(c)) : c \in Range(cams)}
CameraDict(cams) ==
    [k \in CameraDictKeys(cams) |->
        cams[SetMax({i \in DOMAIN cams : Lower(Name(cams[i])) = k})]]

\* mutant: the phone side of the lookup forgets lower()
PhoneKeyCaseSensitive(p) == Name(p)

\* the condition under which a phone image is appended to matches
PhoneKey(p) == Lower(Name(p))

RECURSIVE MatchLoop(_, _, _)
MatchLoop(phones, dict, i) ==
    IF i > Len(phones) THEN <<>>
    ELSE IF PhoneKey(phones[i]) \in DOMAIN dict
         THEN <<<<phones[i], dict[PhoneKey(phones[i])]>>>>
                  \o MatchLoop(phones, dict, i + 1)
         ELSE MatchLoop(phones, dict, i + 1)

FindMatchingPhotos(phones, cams) == MatchLoop(phones, CameraDict(cams), 1)

(***************************************************************************)
(* PhotoReplacer.copy_file_with_metadata                                   *)
(***************************************************************************)
\* shutil.copy2: the whole file (pixels and embedded tags) is written to
\* the target; src and target being one file raises SameFileError.  A copy
\* that raises leaves the target as it was.
Copy2Fails(f, src, tgt, outcome) ==
    src = tgt \/ ~Exists(f, src) \/ outcome = "copy_fail"

Copy2(f, src, tgt) == [f EXCEPT ![tgt] = f[src]]

\* the file whose tags exiftool reads
MetadataSource(src, orig) == IF orig # <<>> THEN orig ELSE src

\* exiftool runs after the bytes copy, on the filesystem as it then is
ExifTool(f, msrc, tgt) ==
    [f EXCEPT ![tgt].meta = Transplant(f[msrc].meta, @)]

CopyFileWithMetadata(f, src, tgt, orig, outcome) ==
    IF Copy2Fails(f, src, tgt, outcome)
    THEN [fs |-> f, ok |-> FALSE]
    ELSE LET f1 == Copy2(f, src, tgt)
         IN  IF outcome = "meta_fail"
             THEN [fs |-> f1, ok |-> FALSE]
             ELSE [fs |-> ExifTool(f1, MetadataSource(src, orig), tgt),
                   ok |-> TRUE]

(***************************************************************************)
(* PhotoReplacer.replace_photos                                            *)
(***************************************************************************)
BackupPath(phone_img) == <<"phone", BackupDirName, Name(phone_img)>>

\* mutant: the continue after a failed backup is missing
AfterBackupNoContinue(ok) == "replace"

\* where the loop goes after the backup call returned ok
AfterBackup(ok) == IF ok THEN "replace" ELSE "backup"

\* mutant: a failed backup is skipped without a record
BackupErrorsDropped(errs, phone_img, ok) == errs

\* the errors list after the backup call returned ok
BackupErrors(errs, phone_img, ok) ==
    IF ok THEN errs ELSE Append(errs, <<phone_img, "Failed to create backup">>)

\* the tally and the errors list after the replace call returned ok
ReplacedCount(n, ok) == IF ok THEN n + 1 ELSE n
ReplaceErrors(errs, phone_img, ok) ==
    IF ok THEN errs
    ELSE Append(errs, <<phone_img, "Failed to replace with camera version">>)

ReplaceInit ==
    /\ \E P \in SUBSET PhoneUniverse, C \in SUBSET CameraUniverse :
          fs = [p \in ReplacePaths |->
                  IF p \in P \cup C THEN OriginalFile(p) ELSE NoFile]
    /\ dirs = {}
    /\ pc = "idle"
    /\ runs = 0
    /\ idx = 0
    /\ errors = <<>>
    /\ phone_images = <<>>
    /\ camera_images = <<>>
    /\ matches = <<>>
    /\ backup_ok = FALSE
    /\ replaced_count = 0
    /\ pre = fs
    /\ results = <<>>
    /\ bkFirst = [p \in {} |-> NoFile]
    /\ source_files = <<>>
    /\ target_filenames = {}
    /\ copied_count = 0
    /\ history = <<>>
    /\ heic_files = <<>>
    /\ delete_original = FALSE
    /\ converted_count = 0
    /\ edited_count = 0
    /\ original_count = 0

\* replace_photos up to the loop: index, match, return if there is nothing
\* to do, else create the backup folder and reset the tallies
ReplaceStart ==
    /\ pc \in {"idle", "done"}
    /\ runs < MaxRuns
    /\ runs' = runs + 1
    /\ \E ph \in ReplacerImageFiles(fs, "phone"),
          cam \in ReplacerImageFiles(fs, "camera") :
          /\ phone_images' = ph
          /\ camera_images' = cam
          /\ matches' = FindMatchingPhotos(ph, cam)
    /\ IF matches' = <<>>
       THEN /\ pc' = "done"
            /\ UNCHANGED dirs
       ELSE /\ pc' = "backup"
            /\ dirs' = dirs \cup {PhoneBackupDir}
    /\ idx' = 1
    /\ replaced_count' = 0
    /\ errors' = <<>>
    /\ backup_ok' = FALSE
    /\ pre' = fs
    /\ results' = <<>>
    /\ UNCHANGED <<fs, bkFirst, mergeVars, convertVars>>

\* one iteration of the loop up to the test of the backup call's result
ReplaceBackup ==
    /\ pc = "backup"
    /\ idx <= Len(matches)
    /\ \E outcome \in Outcomes :
          LET phone_img == matches[idx][1]
              r == CopyFileWithMetadata(fs, phone_img, BackupPath(phone_img),
                                        <<>>, outcome)
          IN  /\ fs' = r.fs
              /\ backup_ok' = r.ok
              /\ errors' = BackupErrors(errors, phone_img, r.ok)
              /\ pc' = AfterBackup(r.ok)
              /\ idx' = IF pc' = "backup" THEN idx + 1 ELSE idx
              /\ results' = IF r.ok THEN results ELSE Append(results, "failed")
              /\ bkFirst' =
                   IF r.ok /\ BackupPath(phone_img) \notin DOMAIN bkFirst
                   THEN (BackupPath(phone_img) :> r.fs[BackupPath(phone_img)])
                            @@ bkFirst
                   ELSE bkFirst
    /\ UNCHANGED <<dirs, runs, phone_images, camera_images, matches,
                   replaced_count, pre, mergeVars, convertVars>>

\* the rest of the iteration: the replace call and the record of its result
ReplaceReplace ==
    /\ pc = "replace"
    /\ \E outcome \in Outcomes :
          LET phone_img == matches[idx][1]
              camera_img == matches[idx][2]
              r == CopyFileWithMetadata(fs, camera_img, phone_img,
                                        phone_img, outcome)
          IN  /\ fs' = r.fs
              /\ replaced_count' = ReplacedCount(replaced_count, r.ok)
              /\ errors' = ReplaceErrors(errors, phone_img, r.ok)
              /\ results' = Append(results, IF r.ok THEN "replaced" ELSE "failed")
    /\ pc' = "backup"
    /\ idx' = idx + 1
    /\ backup_ok' = FALSE
    /\ UNCHANGED <<dirs, runs, phone_images, camera_images, matches, pre,
                   bkFirst, mergeVars, convertVars>>

\* the loop is over: the summary is printed
ReplaceFinish ==
    /\ pc = "backup"
    /\ idx > Len(matches)
    /\ pc' = "done"
    /\ UNCHANGED <<fs, dirs, runs, idx, errors, pre, results, replaceVars,
                   mergeVars, convertVars>>

ReplaceNext == ReplaceStart \/ ReplaceBackup \/ ReplaceReplace \/ ReplaceFinish

ReplaceSpec == ReplaceInit /\ [][ReplaceNext]_vars

(***************************************************************************)
(* Properties of replace_photos                                            *)
(***************************************************************************)
InLoop == pc \in {"backup", "replace"} /\ idx <= Len(matches)
Processed == IF pc = "idle" THEN {} ELSE DOMAIN results
BackupFailure(p) == <<p, "Failed to create backup">>

\* C1: in every iteration the primary file of the match is written only
\* after the backup call of that iteration returned success, and an
\* iteration whose backup call fails records the error, leaves the primary
\* file as it was and goes to the next match without a replace call.
C1_BackupBeforeWrite ==
    [][InLoop =>
        LET P == matches[idx][1]
        IN  /\ (fs'[P] # fs[P]) => (pc = "replace" /\ backup_ok)
            /\ (pc = "backup" /\ ~backup_ok') =>
                   /\ fs'[P] = fs[P]
                   /\ errors' = Append(errors, BackupFailure(P))
                   /\ pc' = "backup" /\ idx' = idx + 1
            /\ pc' = "replace" => backup_ok']_vars

\* a run in which one match was abandoned at the backup and another replaced
C1_Witness ==
    /\ pc = "done"
    /\ replaced_count >= 1
    /\ \E i \in DOMAIN errors : errors[i][2] = "Failed to create backup"

\* C2: after a successful replace of (P, R), P holds R's pixel data and the
\* tags P had before the replace.
C2_ReplacedKeepsPrimaryTags ==
    \A i \in Processed :
        results[i] = "replaced" =>
            /\ fs[matches[i][1]].pix = pre[matches[i][2]].pix
            /\ fs[matches[i][1]].meta = pre[matches[i][1]].meta

\* C3: at the end of a run, for every replaced match the backup folder
\* holds, under the primary's file name, the file the primary was before
\* the run.
C3_BackupOfEveryReplaced ==
    pc = "done" =>
        \A i \in Processed :
            results[i] = "replaced" =>
                fs[BackupPath(matches[i][1])] = pre[matches[i][1]]

\* C4: at the end of a run, the primary of every match recorded in errors
\* has the pixel data it had before the run.
C4_FailedLeavesPrimary ==
    pc = "done" =>
        \A i \in Processed :
            results[i] = "failed" =>
                fs[matches[i][1]].pix = pre[matches[i][1]].pix

\* C5: a backup file keeps the content it had when it was first written,
\* over any number of runs.
C5_BackupNeverOverwritten ==
    \A b \in DOMAIN bkFirst : fs[b] = bkFirst[b]

\* C10: every match is processed once and yields one outcome: at each
\* iteration boundary the tallies add up to the matches processed, at the
\* end to the number of matches, and no asset has two error entries.
ErrorsFor(p) == {i \in DOMAIN errors : errors[i][1] = p}
C10_OneOutcomePerMatch ==
    /\ pc = "backup" => replaced_count + Len(errors) = idx - 1
    /\ pc = "replace" => replaced_count + Len(errors) = idx - 1
    /\ pc = "done" =>
          /\ replaced_count + Len(errors) = Len(matches)
          /\ \A i \in DOMAIN matches :
                Cardinality(ErrorsFor(matches[i][1])) <= 1
          /\ replaced_count =
                Cardinality({i \in DOMAIN matches :
                                ErrorsFor(matches[i][1]) = {}})

\* a run where the first match failed and a later one was replaced
C10_Witness ==
    /\ pc = "done"
    /\ Len(matches) >= 2
    /\ errors # <<>>
    /\ errors[1][1] = matches[1][1]
    /\ replaced_count >= 1

(***************************************************************************)
(* photo_merger.py                                                         *)
(***************************************************************************)
NameDtxt == <<"D", ".", "t", "x", "t">>
MergeBackupDir == <<"target", "_merged_photos_backup">>

\* the files a source folder and a target folder may hold at the start
SourceUniverse ==
    {<<"source", "", NameAJPG>>, <<"source", "s1", NameAJPG>>,
     <<"source", "", NameBPNG>>, <<"source", "", NameDtxt>>}
TargetUniverse ==
    {<<"target", "", Nameajpg>>, <<"target", "s1", NameAJPG>>,
     <<"target", "t1", NameBPNG>>}
MergePaths ==
    SourceUniverse \cup TargetUniverse
      \cup {<<"target", Dir(p), Name(p)>> : p \in SourceUniverse}

MergerSuffixes ==
    {<<".", "j", "p", "g">>, <<".", "j", "p", "e", "g">>,
     <<".", "p", "n", "g">>, <<".", "h", "e", "i", "c">>}

\* get_image_files of photo_merger.py: every path under the folder, at any
\* depth, whose lowercased suffix is an image suffix
MergerImageFiles(f, tree) ==
    {p \in DOMAIN f :
        /\ Tree(p) = tree
        /\ Exists(f, p)
        /\ Lower(Suffix(Name(p))) \in MergerSuffixes}

\* mutant: only the top directory of the target is indexed
TargetFilenamesRootOnly(target_files) ==
    {Lower(Name(t)) : t \in {x \in target_files : Dir(x) = ""}}

\* the set of lowercased file names of the target
TargetFilenames(target_files) == {Lower(Name(t)) : t \in target_files}

\* mutant: the source side of the test forgets lower()
MergeEligibleCaseSensitive(source_file, names) ==
    Name(source_file) \notin names

\* the test that lets a source file be copied
MergeEligible(source_file, names) == Lower(Name(source_file)) \notin names

\* os.path.join(target_folder, os.path.relpath(source_file, source_folder))
TargetPath(source_file) == <<"target", Dir(source_file), Name(source_file)>>

\* copy_file_with_metadata of photo_merger.py: the tags are read from the
\* source file
MergerCopyFileWithMetadata(f, src, tgt, outcome) ==
    CopyFileWithMetadata(f, src, tgt, <<>>, outcome)

MergeInit ==
    /\ \E S \in SUBSET SourceUniverse, T \in SUBSET TargetUniverse :
          fs = [p \in MergePaths |->
                  IF p \in S \cup T THEN OriginalFile(p) ELSE NoFile]
    /\ dirs = {}
    /\ pc = "idle"
    /\ runs = 0
    /\ idx = 0
    /\ errors = <<>>
    /\ pre = fs
    /\ results = <<>>
    /\ phone_images = <<>>
    /\ camera_images = <<>>
    /\ matches = <<>>
    /\ backup_ok = FALSE
    /\ replaced_count = 0
    /\ bkFirst = [p \in {} |-> NoFile]
    /\ source_files = <<>>
    /\ target_filenames = {}
    /\ copied_count = 0
    /\ history = <<>>
    /\ heic_files = <<>>
    /\ delete_original = FALSE
    /\ converted_count = 0
    /\ edited_count = 0
    /\ original_count = 0

\* merge_photos up to the loop: the backup folder, the two indexes, the set
\* of target names, the tallies
MergeStart ==
    /\ pc \in {"idle", "done"}
    /\ runs < MaxRuns
    /\ runs' = runs + 1
    /\ dirs' = dirs \cup {MergeBackupDir}
    /\ \E src \in WalkOrders(MergerImageFiles(fs, "source")) :
          source_files' = src
    /\ target_filenames' = TargetFilenames(MergerImageFiles(fs, "target"))
    /\ copied_count' = 0
    /\ errors' = <<>>
    /\ idx' = 1
    /\ pc' = "merge"
    /\ pre' = fs
    /\ results' = <<>>
    /\ UNCHANGED <<fs, history, replaceVars, convertVars>>

\* one iteration of the loop over source_files; the os.makedirs call of
\* copy_file_with_metadata is the update of dirs
MergeStep ==
    /\ pc = "merge"
    /\ idx <= Len(source_files)
    /\ LET source_file == source_files[idx]
       IN  IF MergeEligible(source_file, target_filenames)
           THEN \E outcome \in Outcomes :
                   LET r == MergerCopyFileWithMetadata(
                                fs, source_file, TargetPath(source_file),
                                outcome)
                   IN  /\ fs' = r.fs
                       /\ dirs' = dirs \cup {<<"target", Dir(source_file)>>}
                       /\ copied_count' =
                             IF r.ok THEN copied_count + 1 ELSE copied_count
                       /\ errors' =
                             IF r.ok THEN errors
                             ELSE Append(errors,
                                    <<source_file,
                                      "Failed to copy file with metadata">>)
                       /\ results' =
                             Append(results,
                                    IF r.ok THEN "copied" ELSE "failed")
           ELSE /\ results' = Append(results, "skipped")
                /\ UNCHANGED <<fs, dirs, copied_count, errors>>
    /\ idx' = idx + 1
    /\ UNCHANGED <<pc, runs, pre, source_files, target_filenames, history,
                   replaceVars, convertVars>>

\* the loop is over: the summary is printed
MergeFinish ==
    /\ pc = "merge"
    /\ idx > Len(source_files)
    /\ pc' = "done"
    /\ history' = Append(history,
                         [copied |-> copied_count, errs |-> Len(errors)])
    /\ UNCHANGED <<fs, dirs, runs, idx, errors, pre, results, source_files,
                   target_filenames, copied_count, replaceVars, convertVars>>

MergeNext == MergeStart \/ MergeStep \/ MergeFinish

MergeSpec == MergeInit /\ [][MergeNext]_vars

(***************************************************************************)
(* Properties of merge_photos                                              *)
(***************************************************************************)
InMerge == pc \in {"merge", "done"} /\ runs >= 1
TargetTree(f) == {p \in DOMAIN f : Tree(p) = "target" /\ Exists(f, p)}

\* C6: every file the target tree held when the run started is unchanged,
\* and a source file is copied only if its lowercased name is the lowercased
\* name of no asset the target held when the run started.
C6_NeverOverwritesTarget ==
    InMerge =>
        /\ \A p \in TargetTree(pre) : fs[p] = pre[p]
        /\ \A i \in DOMAIN results :
              results[i] # "skipped" =>
                  /\ TargetPath(source_files[i]) \notin TargetTree(pre)
                  /\ \A t \in MergerImageFiles(pre, "target") :
                        Lower(Name(t)) # Lower(Name(source_files[i]))

\* a run that copied one file and skipped another whose relative path the
\* target already held
C6_Witness ==
    /\ pc = "done"
    /\ \E i, j \in DOMAIN results :
          /\ results[i] = "copied"
          /\ results[j] = "skipped"
          /\ TargetPath(source_files[j]) \in TargetTree(pre)

\* C7: a run that follows a run in which every copy succeeded copies
\* nothing and leaves the filesystem as it found it.
C7_MergeIdempotent ==
    (InMerge /\ runs >= 2 /\ Len(history) >= runs - 1
       /\ history[runs - 1].errs = 0) =>
        /\ copied_count = 0
        /\ fs = pre

\* the second run is over, after a first run that copied files, all with
\* success
C7_Witness ==
    /\ pc = "done"
    /\ Len(history) = 2
    /\ history[1].copied >= 2
    /\ history[1].errs = 0

(***************************************************************************)
(* Properties of the Matcher                                               *)
(***************************************************************************)
\* C8: for the two indexes of a run: the members of every pair have equal
\* lowercased names; a primary is in a pair iff some reference has its
\* lowercased name; no primary is in two pairs; and the primaries that
\* merge_photos's test calls eligible are the primaries in no pair.
C8_MatchPartition ==
    pc # "idle" =>
        LET A == Range(phone_images)
            B == Range(camera_images)
            matched == {matches[i][1] : i \in DOMAIN matches}
            unmatched == {a \in A : MergeEligible(a, TargetFilenames(B))}
        IN  /\ \A i \in DOMAIN matches :
                  /\ matches[i][1] \in A
                  /\ matches[i][2] \in B
                  /\ Lower(Name(matches[i][1])) = Lower(Name(matches[i][2]))
            /\ \A a \in A :
                  a \in matched <=>
                      \E b \in B : Lower(Name(b)) = Lower(Name(a))
            /\ \A a \in A :
                  Cardinality({i \in DOMAIN matches : matches[i][1] = a}) <= 1
            /\ unmatched = A \ matched
            /\ unmatched \cap matched = {}

\* two primaries paired with a reference whose name differs in case, and a
\* primary left unmatched
C8_Witness ==
    /\ pc # "idle"
    /\ Len(matches) >= 2
    /\ \A i \in DOMAIN matches : Name(matches[i][1]) # Name(matches[i][2])
    /\ \E a \in Range(phone_images) :
          \A i \in DOMAIN matches : matches[i][1] # a

(***************************************************************************)
(* heic_to_jpg.py                                                          *)
(***************************************************************************)
NameEheic == <<"E", ".", "h", "e", "i", "c">>
NameEHEIC == <<"E", ".", "H", "E", "I", "C">>
NameEjpg  == <<"E", ".", "j", "p", "g">>
JpgSuffix == <<".", "j", "p", "g">>
HeicSuffix == <<".", "h", "e", "i", "c">>

HeicUniverse == {<<"folder", "", NameEheic>>, <<"folder", "", NameEHEIC>>}
PreexistingJpg == <<"folder", "", NameEjpg>>
ConvertPaths == HeicUniverse \cup {PreexistingJpg}

\* the tags of a HEIC file that the converter looks at
EditTags == {"AdjustmentType", "HasCrop"}
HeicTags == EditTags \cup {"PreviewImage"}

\* a HEIC file as the phone wrote it: rotated pixel data, orientation tag 6
HeicFile(p, tags) ==
    [pix |-> p, meta |-> [src |-> p, tags |-> tags, orientation |-> 6]]

\* a file of zero bytes
EmptyFile == [pix |-> <<"empty">>, meta |-> NoTags]
GetSize(f, p) == IF f[p] = EmptyFile THEN 0 ELSE 1

\* Path.with_suffix
WithSuffix(name, suffix) ==
    SubSeq(name, 1, Len(name) - Len(Suffix(name))) \o suffix

JpgPath(heic_file) ==
    <<Tree(heic_file), Dir(heic_file), WithSuffix(Name(heic_file), JpgSuffix)>>

\* has_edits: exiftool lists the two edit tags; a failed read gives False
HasEdits(file, readOk) ==
    readOk /\ ("AdjustmentType" \in file.meta.tags \/ "HasCrop" \in file.meta.tags)

\* exiftool -b -PreviewImage with stdout opened on jpg_path: the file is
\* created or truncated, and holds the preview if the HEIC file has one
ExtractPreview(heic_file, file) ==
    IF "PreviewImage" \in file.meta.tags
    THEN [pix |-> <<"preview", heic_file>>, meta |-> NoTags]
    ELSE EmptyFile

\* the test that sends a file through the full decode
ConvertNormally(f, jpg_path) == ~Exists(f, jpg_path) \/ GetSize(f, jpg_path) = 0

\* Image.open, ImageOps.exif_transpose, convert('RGB').save
Decoded(heic_file) == [pix |-> <<"decoded", heic_file>>, meta |-> NoTags]

\* copy_metadata_to_jpg: all the tags of the HEIC file, orientation set to 1
CopyMetadataToJpg(f, heic_path, jpg_path) ==
    [f EXCEPT ![jpg_path].meta =
        [Transplant(f[heic_path].meta, @) EXCEPT !.orientation = 1]]

\* what each step of an iteration may do: the tag read of has_edits, the
\* full decode, the final tag copy
ConvertOutcomes == [read : BOOLEAN, decode : BOOLEAN, tags : BOOLEAN]

ConvertInit ==
    /\ \E tags \in [HeicUniverse -> SUBSET HeicTags],
          H \in SUBSET HeicUniverse,
          jpg \in {NoFile, EmptyFile, OriginalFile(PreexistingJpg)} :
          fs = [p \in ConvertPaths |->
                  IF p \in H THEN HeicFile(p, tags[p])
                  ELSE IF p = PreexistingJpg THEN jpg ELSE NoFile]
    /\ delete_original \in BOOLEAN
    /\ dirs = {}
    /\ pc = "idle"
    /\ runs = 0
    /\ idx = 0
    /\ errors = <<>>
    /\ pre = fs
    /\ results = <<>>
    /\ phone_images = <<>>
    /\ camera_images = <<>>
    /\ matches = <<>>
    /\ backup_ok = FALSE
    /\ replaced_count = 0
    /\ bkFirst = [p \in {} |-> NoFile]
    /\ source_files = <<>>
    /\ target_filenames = {}
    /\ copied_count = 0
    /\ history = <<>>
    /\ heic_files = <<>>
    /\ converted_count = 0
    /\ edited_count = 0
    /\ original_count = 0

\* the files convert_heic_to_jpg collects
HeicFiles(f) ==
    {p \in DOMAIN f :
        /\ Tree(p) = "folder"
        /\ Exists(f, p)
        /\ Lower(Suffix(Name(p))) = HeicSuffix}

\* convert_heic_to_jpg up to the loop
ConvertStart ==
    /\ pc \in {"idle", "done"}
    /\ runs < MaxRuns
    /\ runs' = runs + 1
    /\ \E h \in WalkOrders(HeicFiles(fs)) : heic_files' = h
    /\ pc' = IF heic_files' = <<>> THEN "done" ELSE "convert"
    /\ converted_count' = 0
    /\ edited_count' = 0
    /\ original_count' = 0
    /\ errors' = <<>>
    /\ idx' = 1
    /\ pre' = fs
    /\ results' = <<>>
    /\ UNCHANGED <<fs, dirs, delete_original, replaceVars, mergeVars>>

\* one iteration of the loop over heic_files
ConvertStep ==
    /\ pc = "convert"
    /\ idx <= Len(heic_files)
    /\ \E o \in ConvertOutcomes :
        LET heic_file == heic_files[idx]
            jpg_path == JpgPath(heic_file)
            has_iphone_edits == HasEdits(fs[heic_file], o.read)
            f1 == IF has_iphone_edits
                  THEN [fs EXCEPT ![jpg_path] =
                           ExtractPreview(heic_file, fs[heic_file])]
                  ELSE fs
            normal == ConvertNormally(f1, jpg_path)
            f2 == IF normal THEN [f1 EXCEPT ![jpg_path] = Decoded(heic_file)]
                  ELSE f1
            f3 == CopyMetadataToJpg(f2, heic_file, jpg_path)
            seen == [edits |-> fs[heic_file].meta.tags \cap EditTags # {},
                     extracted |-> IF has_iphone_edits
                                   THEN f1[jpg_path].pix[1] ELSE "none"]
        IN  IF normal /\ ~o.decode
            THEN \* the decode raised: the except clause records it
                 /\ fs' = f1
                 /\ errors' = Append(errors, <<heic_file, "decode">>)
                 /\ results' = Append(results,
                        seen @@ [tally |-> "none", made |-> "nothing"])
                 /\ UNCHANGED <<converted_count, edited_count,
                                original_count>>
            ELSE /\ original_count' =
                       IF normal THEN original_count + 1 ELSE original_count
                 /\ edited_count' =
                       IF normal THEN edited_count ELSE edited_count + 1
                 /\ results' = Append(results,
                        seen @@ [tally |-> IF normal THEN "original"
                                           ELSE "edited",
                                 made |-> f2[jpg_path].pix[1]])
                 /\ IF o.tags
                    THEN /\ converted_count' = converted_count + 1
                         /\ fs' = IF delete_original
                                  THEN [f3 EXCEPT ![heic_file] = NoFile]
                                  ELSE f3
                         /\ UNCHANGED errors
                    ELSE /\ fs' = f2
                         /\ errors' = Append(errors,
                               <<heic_file, "Failed to copy metadata">>)
                         /\ UNCHANGED converted_count
    /\ idx' = idx + 1
    /\ UNCHANGED <<dirs, pc, runs, pre, heic_files, delete_original,
                   replaceVars, mergeVars>>

\* the loop is over: the summary is printed
ConvertFinish ==
    /\ pc = "convert"
    /\ idx > Len(heic_files)
    /\ pc' = "done"
    /\ UNCHANGED <<fs, dirs, runs, idx, errors, pre, results, replaceVars,
                   mergeVars, convertVars>>

ConvertNext == ConvertStart \/ ConvertStep \/ ConvertFinish

ConvertSpec == ConvertInit /\ [][ConvertNext]_vars

(***************************************************************************)
(* Properties of convert_heic_to_jpg                                       *)
(***************************************************************************)
\* C9: a file is tallied "edited" only if it has an edit tag and the
\* preview extraction of this run gave a non-empty file; every other file
\* that is tallied is tallied "original" and is made by the full decode.
C9_EditedOnlyWithPreview ==
    \A i \in DOMAIN results :
        results[i].tally # "none" =>
            IF results[i].edits /\ results[i].extracted = "preview"
            THEN results[i].tally = "edited"
            ELSE results[i].tally = "original" /\ results[i].made = "decoded"

(***************************************************************************)
(* Properties settled on the duplicates of a name                          *)
(***************************************************************************)
AssetsNamed(f, tree, key) ==
    {p \in MergerImageFiles(f, tree) : Lower(Name(p)) = key}
OnePerName(f, tree) ==
    \A p \in MergerImageFiles(f, tree) :
        Cardinality(AssetsNamed(f, tree, Lower(Name(p)))) <= 1

\* C11: if the target tree holds at most one asset per lowercased file name
\* when merge_photos starts, it holds at most one per lowercased file name
\* when the run is over.
C11_OneAssetPerNameAfterMerge ==
    (pc = "done" /\ runs >= 1 /\ OnePerName(pre, "target")) =>
        OnePerName(fs, "target")

\* C12: every pair holds the reference image that comes last, in the order
\* of the camera index, among those with the primary's lowercased name, and
\* every primary whose key some reference image has is in exactly one pair.
SameKey(p, c) == Lower(Name(p)) = Lower(Name(c))
C12_LastReferenceWins ==
    pc # "idle" =>
        /\ \A i \in DOMAIN matches :
              \E k \in DOMAIN camera_images :
                  /\ camera_images[k] = matches[i][2]
                  /\ SameKey(matches[i][1], camera_images[k])
                  /\ \A j \in DOMAIN camera_images :
                        (j > k) => ~SameKey(matches[i][1], camera_images[j])
        /\ \A n \in DOMAIN phone_images :
              (\E k \in DOMAIN camera_images :
                    SameKey(phone_images[n], camera_images[k])) =>
                  Cardinality({i \in DOMAIN matches :
                                  matches[i][1] = phone_images[n]}) = 1

\* two primaries with one key, both paired with the last of three reference
\* images of that key, which is not the one in the subdirectory alone
C12_Witness ==
    /\ pc # "idle"
    /\ Len(matches) >= 2
    /\ Len(camera_images) = 3
    /\ \A i \in DOMAIN matches : matches[i][2] = camera_images[3]
    /\ \A k \in DOMAIN camera_images :
          SameKey(matches[1][1], camera_images[k])

====
